---------------------------- MODULE Spec2Model ----------------------------
(***************************************************************************)
(* Model of app.py, the Streamlit page of the hypoalbuminemia risk         *)
(* calculator.  One execution of the script (a "run") goes top to bottom:  *)
(* load the pickled model, collect the eight number inputs, and, when the  *)
(* Calculate Risk button was pressed, call predict_proba, recalibrate the  *)
(* raw probability around the threshold 0.3396 and render the result.      *)
(*                                                                         *)
(* raw_prob, threshold and display_prob are Python floats, that is IEEE    *)
(* 754 binary64 numbers.  They are modelled bit for bit: a finite double   *)
(* is a record [s, m, e] of value (-1)^s * m * 2^e, with m a natural       *)
(* number of at most 53 bits, and every arithmetic operation rounds its    *)
(* exact result to the nearest double, ties to even.  Naturals wider than  *)
(* a machine word are sequences of 15-bit limbs, least significant limb    *)
(* first, without leading zero limbs.                                      *)
(***************************************************************************)
EXTENDS Integers, Sequences, FiniteSets, TLC

Max(a, b) == IF a >= b THEN a ELSE b
Min(a, b) == IF a <= b THEN a ELSE b

(***************************************************************************)
(* Natural numbers of any width.                                           *)
(***************************************************************************)
Base == 2^15
LimbBits == CHOOSE k \in 1..30 : 2^k = Base

Limb(x, i) == IF i >= 1 /\ i <= Len(x) THEN x[i] ELSE 0

RECURSIVE Trim(_)
Trim(x) ==
    IF x = <<>> THEN <<>>
    ELSE IF x[Len(x)] # 0 THEN x
    ELSE Trim(SubSeq(x, 1, Len(x) - 1))

RECURSIVE IntToBig(_)
IntToBig(n) == IF n = 0 THEN <<>> ELSE <<n % Base>> \o IntToBig(n \div Base)

BOne == <<1>>
BIsOdd(x) == Limb(x, 1) % 2 = 1

\* the number of bits of x: 0 for 0, and k when 2^(k-1) <= x < 2^k
BLen(x) ==
    IF x = <<>> THEN 0
    ELSE LET top == x[Len(x)]
         IN  LimbBits * (Len(x) - 1)
               + (CHOOSE k \in 1..LimbBits : 2^(k - 1) <= top /\ top < 2^k)

RECURSIVE AddFrom(_, _, _, _)
AddFrom(a, b, i, c) ==
    IF i > Len(a) /\ i > Len(b)
    THEN (IF c = 0 THEN <<>> ELSE <<c>>)
    ELSE LET t == Limb(a, i) + Limb(b, i) + c
         IN  <<t % Base>> \o AddFrom(a, b, i + 1, t \div Base)

BAdd(a, b) == AddFrom(a, b, 1, 0)

RECURSIVE SubFrom(_, _, _, _)
SubFrom(a, b, i, br) ==
    IF i > Len(a) THEN <<>>
    ELSE LET t == Limb(a, i) - Limb(b, i) - br
         IN  <<t % Base>> \o SubFrom(a, b, i + 1, IF t < 0 THEN 1 ELSE 0)

\* a - b, for a >= b
BSub(a, b) == Trim(SubFrom(a, b, 1, 0))

RECURSIVE CmpAt(_, _, _)
CmpAt(a, b, i) ==
    IF i = 0 THEN 0
    ELSE IF a[i] > b[i] THEN 1
    ELSE IF a[i] < b[i] THEN -1
    ELSE CmpAt(a, b, i - 1)

\* -1, 0 or 1 as a < b, a = b or a > b
BCmp(a, b) ==
    IF Len(a) > Len(b) THEN 1
    ELSE IF Len(a) < Len(b) THEN -1
    ELSE CmpAt(a, b, Len(a))

RECURSIVE MulSmallFrom(_, _, _, _)
MulSmallFrom(x, c, i, carry) ==
    IF i > Len(x)
    THEN (IF carry = 0 THEN <<>> ELSE <<carry>>)
    ELSE LET t == x[i] * c + carry
         IN  <<t % Base>> \o MulSmallFrom(x, c, i + 1, t \div Base)

\* x * c, for 0 <= c <= Base
BMulSmall(x, c) == IF c = 0 THEN <<>> ELSE MulSmallFrom(x, c, 1, 0)

\* x * Base^n
LimbShl(x, n) ==
    IF x = <<>> \/ n <= 0 THEN x
    ELSE [i \in 1..(Len(x) + n) |-> IF i <= n THEN 0 ELSE x[i - n]]

\* x * 2^k
BShl(x, k) ==
    IF k <= 0 THEN x
    ELSE LimbShl(BMulSmall(x, 2^(k % LimbBits)), k \div LimbBits)

RECURSIVE DivSmallFrom(_, _, _, _)
DivSmallFrom(x, c, i, rem) ==
    IF i = 0 THEN <<>>
    ELSE LET t == rem * Base + x[i]
         IN  DivSmallFrom(x, c, i - 1, t % c) \o <<t \div c>>

\* floor(x / 2^k)
BShr(x, k) ==
    IF k <= 0 THEN x
    ELSE IF k \div LimbBits >= Len(x) THEN <<>>
    ELSE LET y == SubSeq(x, k \div LimbBits + 1, Len(x))
         IN  Trim(DivSmallFrom(y, 2^(k % LimbBits), Len(y), 0))

RECURSIVE MulFrom(_, _, _)
MulFrom(a, b, i) ==
    IF i > Len(b) THEN <<>>
    ELSE BAdd(LimbShl(BMulSmall(a, b[i]), i - 1), MulFrom(a, b, i + 1))

BMul(a, b) == IF a = <<>> THEN <<>> ELSE Trim(MulFrom(a, b, 1))

\* the largest g in lo..hi with g * d <= r, given lo * d <= r
RECURSIVE Digit(_, _, _, _)
Digit(r, d, lo, hi) ==
    IF lo = hi THEN lo
    ELSE LET mid == (lo + hi + 1) \div 2
         IN  IF BCmp(BMulSmall(d, mid), r) <= 0
             THEN Digit(r, d, mid, hi)
             ELSE Digit(r, d, lo, mid - 1)

RECURSIVE DivStep(_, _, _, _, _)
DivStep(n, d, i, r, q) ==
    IF i = 0 THEN [q |-> Trim(q), r |-> r]
    ELSE LET r2 == Trim(<<n[i]>> \o r)
             g  == Digit(r2, d, 0, Base - 1)
         IN  DivStep(n, d, i - 1, BSub(r2, BMulSmall(d, g)), <<g>> \o q)

\* quotient and remainder of n by d, for d > 0 (schoolbook long division)
BDivMod(n, d) == DivStep(n, d, Len(n), <<>>, <<>>)

(***************************************************************************)
(* IEEE 754 binary64, the Python float.                                    *)
(***************************************************************************)
Precision == 53
MinExp == -1074

FZero(s) == [s |-> s, m |-> <<>>, e |-> MinExp]

\* the double nearest to (-1)^s * x * 2^e, ties to even
Round(s, x, e) ==
    IF x = <<>> THEN FZero(s)
    ELSE LET e2 == Max(e + BLen(x) - Precision, MinExp)
         IN  IF e2 <= e
             THEN [s |-> s, m |-> BShl(x, e - e2), e |-> e2]
             ELSE LET k == e2 - e
                      q == BShr(x, k)
                      c == BCmp(BSub(x, BShl(q, k)), BShl(BOne, k - 1))
                      up == c > 0 \/ (c = 0 /\ BIsOdd(q))
                      q2 == IF up THEN BAdd(q, BOne) ELSE q
                  IN  IF BLen(q2) > Precision
                      THEN [s |-> s, m |-> BShr(q2, 1), e |-> e2 + 1]
                      ELSE [s |-> s, m |-> q2, e |-> e2]

FromInt(n) == IF n >= 0 THEN Round(0, IntToBig(n), 0) ELSE Round(1, IntToBig(-n), 0)

FIsZero(a) == a.m = <<>>
FNeg(a) == [a EXCEPT !.s = 1 - a.s]

\* magnitudes: the normal form makes (e, m) ordered as the values are
MagCmp(a, b) ==
    IF a.e > b.e THEN 1
    ELSE IF a.e < b.e THEN -1
    ELSE BCmp(a.m, b.m)

FCmp(a, b) ==
    IF FIsZero(a) /\ FIsZero(b) THEN 0
    ELSE IF a.s = 0 /\ b.s = 0 THEN MagCmp(a, b)
    ELSE IF a.s = 1 /\ b.s = 1 THEN MagCmp(b, a)
    ELSE IF a.s = 0 THEN 1 ELSE -1

FLt(a, b) == FCmp(a, b) < 0
FLe(a, b) == FCmp(a, b) <= 0
FGt(a, b) == FCmp(a, b) > 0
FEq(a, b) == FCmp(a, b) = 0

\* The operand of the smaller exponent, when it lies more than a few bits below
\* the last place of the other, only decides the direction of the rounding:
\* any value of its sign below 1/16 of the last place of `hi` rounds alike.
Absorbed(lo, hi) ==
    IF hi.e - lo.e > Precision + 3 /\ ~FIsZero(lo)
    THEN [s |-> lo.s, m |-> BOne, e |-> hi.e - 5]
    ELSE lo

FAdd(a0, b0) ==
    LET a == IF a0.e < b0.e THEN Absorbed(a0, b0) ELSE a0
        b == IF b0.e < a0.e THEN Absorbed(b0, a0) ELSE b0
        emin == Min(a.e, b.e)
        A == BShl(a.m, a.e - emin)
        B == BShl(b.m, b.e - emin)
        c == BCmp(A, B)
    IN  IF a.s = b.s THEN Round(a.s, BAdd(A, B), emin)
        ELSE IF c = 0 THEN FZero(0)
        ELSE IF c > 0 THEN Round(a.s, BSub(A, B), emin)
        ELSE Round(b.s, BSub(B, A), emin)

FSub(a, b) == FAdd(a, FNeg(b))

FMul(a, b) == Round((a.s + b.s) % 2, BMul(a.m, b.m), a.e + b.e)

\* a / b for b # 0: 55 or more quotient bits and a sticky bit, then rounded
FDiv(a, b) ==
    IF FIsZero(a) THEN FZero((a.s + b.s) % 2)
    ELSE LET sh == Precision + 2 + BLen(b.m) - BLen(a.m)
             qr == BDivMod(BShl(a.m, sh), b.m)
             x  == BAdd(BShl(qr.q, 1), IF qr.r = <<>> THEN <<>> ELSE BOne)
         IN  Round((a.s + b.s) % 2, x, a.e - sh - b.e - 1)

\* a decimal literal n/d (d a power of ten), read as Python reads it
Dec(n, d) == FDiv(FromInt(n), FromInt(d))


\* float(...) of a double nearest to a double: the next double up (x >= 0)
\* and the next double down (x > 0), as math.nextafter gives them
NextUp(x) == Round(0, BAdd(x.m, BOne), x.e)
NextDown(x) ==
    IF x.e > MinExp /\ x.m = BShl(BOne, Precision - 1)
    THEN [s |-> 0, m |-> BSub(BShl(x.m, 1), BOne), e |-> x.e - 1]
    ELSE [s |-> 0, m |-> BSub(x.m, BOne), e |-> x.e]

RECURSIVE UlpsUp(_, _)
UlpsUp(x, k) == IF k = 0 THEN x ELSE UlpsUp(NextUp(x), k - 1)
RECURSIVE UlpsDown(_, _)
UlpsDown(x, k) == IF k = 0 THEN x ELSE UlpsDown(NextDown(x), k - 1)

RECURSIVE BigToInt(_)
BigToInt(x) == IF x = <<>> THEN 0 ELSE x[1] + Base * BigToInt(Tail(x))

\* round(v * 10) to an integer, ties to even: the digits of f"{v:.1f}"
RoundDec1(v) ==
    LET n == BMulSmall(v.m, 10)
        k == 0 - v.e
        q == BShr(n, k)
        c == BCmp(BSub(n, BShl(q, k)), BShl(BOne, k - 1))
        up == c > 0 \/ (c = 0 /\ BIsOdd(q))
        mag == IF k <= 0 THEN BigToInt(BShl(n, v.e))
               ELSE BigToInt(IF up THEN BAdd(q, BOne) ELSE q)
    IN  IF v.s = 1 THEN 0 - mag ELSE mag

(***************************************************************************)
(* D. Prediction Logic: the normalisation of lines 94-103 and the risk     *)
(* stratification of line 118.                                             *)
(***************************************************************************)
Zero == FromInt(0)
One == FromInt(1)
Half == Dec(5, 10)
Hundred == FromInt(100)
Threshold == Dec(3396, 10000)

\* the lower segment scaled by the width of the upper one
LowerBranchUpperWidth(raw) == FMul(FDiv(raw, FSub(One, Threshold)), Half)

LowerBranch(raw) == FMul(FDiv(raw, Threshold), Half)

\* the upper segment without its final scaling by 0.5
UpperBranchUnscaled(raw) ==
    FAdd(Half, FDiv(FSub(raw, Threshold), FSub(One, Threshold)))

\* the upper segment without its offset of 0.5
UpperBranchNoOffset(raw) ==
    FMul(FDiv(FSub(raw, Threshold), FSub(One, Threshold)), Half)

UpperBranch(raw) ==
    FAdd(Half, FMul(FDiv(FSub(raw, Threshold), FSub(One, Threshold)), Half))

DisplayProb(raw) ==
    IF FLt(raw, Threshold) THEN LowerBranch(raw) ELSE UpperBranch(raw)

IsHighRisk(display) == FGt(display, Half)

\* f"{display_prob:.1%}": the value times 100 (a float product), one decimal;
\* the result is the number of tenths of a percent
FormatPct1(display) == RoundDec1(FMul(display, Hundred))

\* col1.progress(value) raises StreamlitAPIException unless 0.0 <= value <= 1.0
ProgressAccepts(display) == FLe(Zero, display) /\ FLe(display, One)

(***************************************************************************)
(* What the page shows.  An element records the Streamlit call that made   *)
(* it (el), its fixed text (txt), the program value interpolated into it   *)
(* (src, "" when none) and that value: a string (str), an integer (n) or   *)
(* a float (num).                                                          *)
(***************************************************************************)
NoNum == [s |-> 0, m |-> <<>>, e |-> 0]

El(el, txt) == [el |-> el, txt |-> txt, src |-> "", str |-> "", n |-> 0, num |-> NoNum]
ElStr(el, txt, src, str) == [El(el, txt) EXCEPT !.src = src, !.str = str]
ElInt(el, txt, src, n) == [El(el, txt) EXCEPT !.src = src, !.n = n]
ElNum(el, txt, src, num) == [El(el, txt) EXCEPT !.src = src, !.num = num]

Shows(o, el) == \E i \in 1..Len(o) : o[i].el = el
ShowsText(o, el, txt) == \E i \in 1..Len(o) : o[i].el = el /\ o[i].txt = txt
ShowsValue(o, src) == \E i \in 1..Len(o) : o[i].src = src

(***************************************************************************)
(* B. Load Model.                                                          *)
(***************************************************************************)
model_files == <<"xgb_model.pkl", "xgb_model.pkl">>

\* Python objects a pickle can hold, as far as the page tells them apart
Obj(tag, items) == [tag |-> tag, items |-> items]
None == Obj("None", <<>>)
Classifier == Obj("classifier", <<>>)

\* xgb_model.pkl on disk: absent, unreadable by pickle, or holding an object
Artifacts ==
    { [exists |-> FALSE, loads |-> FALSE, obj |-> None],
      [exists |-> TRUE,  loads |-> FALSE, obj |-> None],
      [exists |-> TRUE,  loads |-> TRUE,  obj |-> None],
      [exists |-> TRUE,  loads |-> TRUE,  obj |-> Classifier],
      [exists |-> TRUE,  loads |-> TRUE,  obj |-> Obj("list", <<"classifier">>)],
      [exists |-> TRUE,  loads |-> TRUE,  obj |-> Obj("list", <<>>)] }

\* what one iteration of the loop of lines 31-41 does with `file`:
\* the model it leaves, the st.error it shows, whether pickle.load ran,
\* and whether the loop ends (break)
LoadIteration(file, disk, model) ==
    IF ~(file = "xgb_model.pkl" /\ disk.exists)
    THEN [model |-> model, shown |-> <<>>, loads |-> 0, brk |-> FALSE]
    ELSE IF ~disk.loads
    THEN [model |-> model,
          shown |-> <<ElStr("error", "Error loading", "e", "UnpicklingError")>>,
          loads |-> 1, brk |-> FALSE]
    ELSE IF disk.obj.tag = "list" /\ disk.obj.items = <<>>
    THEN [model |-> disk.obj,
          shown |-> <<ElStr("error", "Error loading", "e", "IndexError")>>,
          loads |-> 1, brk |-> FALSE]
    ELSE IF disk.obj.tag = "list"
    THEN [model |-> Obj(disk.obj.items[1], <<>>), shown |-> <<>>,
          loads |-> 1, brk |-> TRUE]
    ELSE [model |-> disk.obj, shown |-> <<>>, loads |-> 1, brk |-> TRUE]

(***************************************************************************)
(* C. User Input.  The number inputs in the order the sidebar shows them;  *)
(* values in hundredths (Age 18..110 is 1800..11000).                      *)
(***************************************************************************)
Widget(name, min, max, value, step) ==
    [name |-> name, min |-> min, max |-> max, value |-> value, step |-> step]

\* Age is an integer input (step 1); the others are float inputs (step 0.01)
NumberInputs ==
    << Widget("Age",    1800,  11000,   7500,   100),
       Widget("CHE",    10000, 2000000, 500000, 1),
       Widget("HCT",    1000,  7000,    4000,   1),
       Widget("hs_CRP", 0,     30000,   1000,   1),
       Widget("AG",     0,     5000,    1200,   1),
       Widget("Mg",     0,     500,     85,     1),
       Widget("ALT",    0,     50000,   2500,   1),
       Widget("INR",    0,     1000,    110,    1) >>

\* a number input without min_value and max_value
NumberInputUnbounded(w, typed) == typed

\* st.sidebar.number_input: the value entered, kept inside min_value..max_value
NumberInput(w, typed) ==
    IF typed < w.min THEN w.min ELSE IF typed > w.max THEN w.max ELSE typed

\* the keys of `data`, in the order of the dict literal of lines 66-75
DataKeys == <<"Mg", "ALT", "AG", "CHE", "HCT", "INR", "hs_CRP", "Age">>

\* pd.DataFrame(data, index=[0]): one row, the columns in the order of the keys
DataFrame(values) ==
    [i \in 1..Len(DataKeys) |->
        [name |-> DataKeys[i],
         value |-> values[CHOOSE j \in 1..Len(NumberInputs) :
                              NumberInputs[j].name = DataKeys[i]]]]

\* what the user may enter in a number input: one step below the minimum, the
\* minimum, the default, the maximum, one step above the maximum
Entries(w) == <<w.min - w.step, w.min, w.value, w.max, w.max + w.step>>

user_input_features(choice) ==
    DataFrame([j \in 1..Len(NumberInputs) |->
                  NumberInput(NumberInputs[j], Entries(NumberInputs[j])[choice])])

(***************************************************************************)
(* What predict_proba may answer: a positive-class probability, or a raise.*)
(***************************************************************************)
GridN == 12
MaxUlps == 3
MaxRuns == 2

Around(x) == {UlpsUp(x, k) : k \in 0..MaxUlps} \cup {UlpsDown(x, k) : k \in 0..MaxUlps}

\* doubles inside [0, 1]: a grid, the scenario values, and the doubles next to
\* 0, to the threshold, to 1 and to 1/5
UnitProbs ==
    {Dec(k, GridN) : k \in 0..GridN}
      \cup {Dec(1698, 10000), Dec(6698, 10000)}
      \cup {UlpsUp(Zero, k) : k \in 0..MaxUlps}
      \cup Around(Threshold)
      \cup Around(Dec(2, 10))
      \cup {UlpsDown(One, k) : k \in 0..MaxUlps}

\* answers that break the contract of a probability
BadProbs == {Dec(14, 10), NextUp(One), FNeg(Dec(1, 10)), FNeg(NextUp(Zero))}

PredictCauses == {"ValueError: feature_names mismatch"}

Returned(raw) == [kind |-> "returned", raw |-> raw, cause |-> ""]
Raised(cause) == [kind |-> "raised", raw |-> NoNum, cause |-> cause]

Outcomes ==
    {Returned(raw) : raw \in UnitProbs \cup BadProbs}
      \cup {Raised(cause) : cause \in PredictCauses}

InUnit(raw) == FLe(Zero, raw) /\ FLe(raw, One)

\* DisplayProb of every answer above, computed once
Calibrated == [raw \in UnitProbs \cup BadProbs |-> DisplayProb(raw)]

(***************************************************************************)
(* D. Prediction Logic: what one press of Calculate Risk shows.            *)
(***************************************************************************)
\* a handler that swallows the exception
ExceptHandlerSilent(cause) == <<>>

\* lines 129-131
ExceptHandler(cause) ==
    << ElStr("error", "Prediction Error", "e", cause),
       El("info", "Tip: check the column names") >>

\* lines 106-112
ResultsHead(display) ==
    << El("markdown", "---"),
       El("subheader", "Prediction Results"),
       ElInt("metric", "Risk Score", "display_prob", FormatPct1(display)) >>

\* lines 117-124
Stratification(display) ==
    IF IsHighRisk(display)
    THEN << El("error", "High Risk Group"),
            El("markdown", "The predicted risk score is High (>50%)"),
            El("markdown", "Recommendation: nutritional intervention") >>
    ELSE << El("success", "Low Risk Group"),
            El("markdown", "The predicted risk score is Low (<50%)") >>

\* line 127
TechnicalNote == <<ElNum("caption", "Note: calibrated probability", "threshold", Threshold)>>

\* the try statement of lines 88-131 on the loaded model and on what
\* predict_proba answers: the elements shown, the variables assigned, the
\* number of calls of predict_proba, and the exception caught ("" when none)
\* (display is DisplayProb of the raw probability, when one is returned)
TryPredict(model, outcome, display) ==
    IF model.tag # "classifier"
    THEN [shown |-> ExceptHandler("AttributeError: predict_proba"),
          calls |-> 0, call |-> "no_method",
          raw |-> NoNum, display |-> NoNum,
          exc |-> "AttributeError: predict_proba"]
    ELSE IF outcome.kind = "raised"
    THEN [shown |-> ExceptHandler(outcome.cause),
          calls |-> 1, call |-> "raised",
          raw |-> NoNum, display |-> NoNum,
          exc |-> outcome.cause]
    ELSE IF ProgressAccepts(display)
    THEN [shown |-> ResultsHead(display)
                      \o <<ElNum("progress", "", "display_prob", display)>>
                      \o Stratification(display)
                      \o TechnicalNote,
          calls |-> 1, call |-> "returned",
          raw |-> outcome.raw, display |-> display,
          exc |-> ""]
    ELSE [shown |-> ResultsHead(display)
                      \o ExceptHandler("StreamlitAPIException: progress"),
          calls |-> 1, call |-> "returned",
          raw |-> outcome.raw, display |-> display,
          exc |-> "StreamlitAPIException: progress"]

(***************************************************************************)
(* The page.  A run is one execution of the script.                        *)
(*   disk          xgb_model.pkl as it is on disk                          *)
(*   pc            the section of the script the run is about to execute   *)
(*   run           the number of this run                                  *)
(*   file_i        the index in model_files of the loop of line 31         *)
(*   loaded_model  the module variable of that name                        *)
(*   n_load        the calls of pickle.load in this run                    *)
(*   out           the elements this run has shown, in order               *)
(*   input_df      the data frame of line 78 (<<>> before it)              *)
(*   handed        the data frame handed to predict_proba (<<>> if none)   *)
(*   n_predict     the calls of predict_proba in this run                  *)
(*   call          how the call of line 90 ended: "none", "no_method",     *)
(*                 "raised", "returned"                                    *)
(*   exc           the exception the handler of line 129 caught, or ""     *)
(*   raw_prob, display_prob   the variables of lines 91 and 100/103        *)
(*   prev          raw_prob and display_prob of the last scoring pass of   *)
(*                 an earlier run that showed a verdict (a history         *)
(*                 variable: the script keeps nothing between runs)        *)
(***************************************************************************)
VARIABLES disk, pc, run, file_i, loaded_model, n_load, out, input_df, handed,
          n_predict, call, exc, raw_prob, display_prob, prev

vars == <<disk, pc, run, file_i, loaded_model, n_load, out, input_df, handed,
          n_predict, call, exc, raw_prob, display_prob, prev>>

NoPass == [raw |-> NoNum, display |-> NoNum]

\* the state a run starts in
Fresh ==
    /\ pc = "start"
    /\ file_i = 1
    /\ loaded_model = None
    /\ n_load = 0
    /\ out = <<>>
    /\ input_df = <<>>
    /\ handed = <<>>
    /\ n_predict = 0
    /\ call = "none"
    /\ exc = ""
    /\ raw_prob = NoNum
    /\ display_prob = NoNum

Init ==
    /\ disk \in Artifacts
    /\ run = 1
    /\ prev = NoPass
    /\ Fresh

pageVars == <<disk, run, prev>>
loadVars == <<file_i, loaded_model, n_load>>
inputVars == <<input_df>>
predictVars == <<handed, n_predict, call, exc, raw_prob, display_prob>>

\* A. Page Configuration, lines 9-22, and lines 28-29
PageHeader ==
    /\ pc = "start"
    /\ out' = << El("title", "Risk Prediction Model for Hypoalbuminemia"),
                 El("markdown", "in Elderly Patients with AECOPD"),
                 El("markdown", "---"),
                 El("info", "Instructions") >>
    /\ pc' = "load"
    /\ UNCHANGED <<pageVars, loadVars, inputVars, predictVars>>

\* one iteration of the loop of lines 31-41
LoadFile ==
    /\ pc = "load"
    /\ LET it == LoadIteration(model_files[file_i], disk, loaded_model)
       IN  /\ loaded_model' = it.model
           /\ n_load' = n_load + it.loads
           /\ out' = out \o it.shown
           /\ file_i' = file_i + 1
           /\ pc' = IF it.brk \/ file_i = Len(model_files) THEN "check" ELSE "load"
    /\ UNCHANGED <<pageVars, inputVars, predictVars>>

\* lines 43-45, and line 50 when the run goes on
CheckLoaded ==
    /\ pc = "check"
    /\ IF loaded_model = None
       THEN /\ out' = Append(out, El("error", "Model file not found"))
            /\ pc' = "stopped"
       ELSE /\ out' = Append(out, El("sidebar.header", "Clinical Parameters"))
            /\ pc' = "input"
    /\ UNCHANGED <<pageVars, loadVars, inputVars, predictVars>>

\* lines 52-82
CollectInputs ==
    /\ pc = "input"
    /\ \E choice \in 1..Len(Entries(NumberInputs[1])) :
          /\ input_df' = user_input_features(choice)
          /\ out' = out \o << El("subheader", "Patient Data Confirmation"),
                              El("dataframe", "input_df") >>
    /\ pc' = "button"
    /\ UNCHANGED <<pageVars, loadVars, predictVars>>

\* lines 87-131, the button pressed
CalculateRisk ==
    /\ pc = "button"
    /\ \E outcome \in Outcomes :
        \E display \in {IF outcome.kind = "returned"
                         THEN Calibrated[outcome.raw] ELSE NoNum} :
        \E t \in {TryPredict(loaded_model, outcome, display)} :
              /\ out' = out \o t.shown
              /\ n_predict' = n_predict + t.calls
              /\ handed' = IF t.calls > 0 THEN input_df ELSE handed
              /\ call' = t.call
              /\ exc' = t.exc
              /\ raw_prob' = t.raw
              /\ display_prob' = t.display
    /\ pc' = "footer"
    /\ UNCHANGED <<pageVars, loadVars, inputVars>>

\* line 87, the button not pressed
NoPress ==
    /\ pc = "button"
    /\ pc' = "footer"
    /\ UNCHANGED <<pageVars, loadVars, inputVars, predictVars, out>>

\* lines 134-143
Footer ==
    /\ pc = "footer"
    /\ out' = out \o <<El("markdown", "---"), El("markdown", "footer")>>
    /\ pc' = "done"
    /\ UNCHANGED <<pageVars, loadVars, inputVars, predictVars>>

\* the user changes an input, presses the button or reloads: Streamlit runs
\* the script again from the top
Rerun ==
    /\ pc \in {"done", "stopped"}
    /\ run < MaxRuns
    /\ run' = run + 1
    /\ prev' = IF call = "returned" /\ exc = ""
               THEN [raw |-> raw_prob, display |-> display_prob]
               ELSE prev
    /\ pc' = "start"
    /\ file_i' = 1
    /\ loaded_model' = None
    /\ n_load' = 0
    /\ out' = <<>>
    /\ input_df' = <<>>
    /\ handed' = <<>>
    /\ n_predict' = 0
    /\ call' = "none"
    /\ exc' = ""
    /\ raw_prob' = NoNum
    /\ display_prob' = NoNum
    /\ UNCHANGED disk

Next ==
    \/ PageHeader
    \/ LoadFile
    \/ CheckLoaded
    \/ CollectInputs
    \/ CalculateRisk
    \/ NoPress
    \/ Footer
    \/ Rerun

Spec == Init /\ [][Next]_vars

(***************************************************************************)
(* Properties.                                                             *)
(***************************************************************************)
HighShown == ShowsText(out, "error", "High Risk Group")
LowShown == ShowsText(out, "success", "Low Risk Group")
\* predict_proba returned and the run showed a verdict
Scored == call = "returned" /\ exc = ""

\* C1: for a raw probability in [0, 1] the display score lies in [0, 1], is 0
\* exactly when raw is 0 and is 1 exactly when raw is 1.
RangePreserved ==
    (call = "returned" /\ InUnit(raw_prob)) =>
        /\ FLe(Zero, display_prob)
        /\ FLe(display_prob, One)
        /\ (FEq(display_prob, Zero) <=> FEq(raw_prob, Zero))
        /\ (FEq(display_prob, One) <=> FEq(raw_prob, One))

RangePreservedWitness ==
    /\ Scored
    /\ raw_prob = One
    /\ display_prob = One
    /\ Shows(out, "metric")

\* C2: a scoring pass on a raw probability in [0, 1] shows High Risk exactly
\* when raw > threshold; raw = threshold gives display 0.5 and Low Risk.
VerdictIffAboveThreshold ==
    (Scored /\ InUnit(raw_prob)) =>
        /\ HighShown <=> FGt(raw_prob, Threshold)
        /\ LowShown <=> ~FGt(raw_prob, Threshold)
        /\ raw_prob = Threshold => display_prob = Half

\* C3: a run that shows the display score shows the raw probability too.
RawAlwaysShown ==
    ShowsValue(out, "display_prob") => ShowsValue(out, "raw_prob")

\* C4: a probability outside [0, 1] ends the pass in an error before the
\* recalibration: no display score is computed or shown, and no verdict.
ContractViolationRejected ==
    (call = "returned" /\ ~InUnit(raw_prob)) =>
        /\ exc # ""
        /\ display_prob = NoNum
        /\ ~ShowsValue(out, "display_prob")
        /\ ~HighShown /\ ~LowShown

\* C5: at raw = threshold the display score is exactly 0.5, and the lower
\* and the upper expression both give 0.5 there.
ThresholdCentered ==
    (call = "returned" /\ raw_prob = Threshold) =>
        /\ display_prob = Half
        /\ LowerBranch(raw_prob) = Half
        /\ UpperBranch(raw_prob) = Half

ThresholdCenteredWitness ==
    /\ Scored
    /\ raw_prob = Threshold
    /\ LowShown
    /\ \E i \in 1..Len(out) : out[i].el = "metric" /\ out[i].n = 500

\* two scoring passes, of this run and of an earlier one, on raw
\* probabilities in [0, 1]
TwoPasses ==
    /\ Scored
    /\ prev # NoPass
    /\ InUnit(raw_prob)
    /\ InUnit(prev.raw)

SameSegment(r1, r2) == FLt(r1, Threshold) <=> FLt(r2, Threshold)

StrictInSegments(r1, d1, r2, d2) ==
    FLt(r1, r2) => (FLe(d1, d2) /\ (SameSegment(r1, r2) => FLt(d1, d2)))

MinGap == Dec(1, 10000)

StrictWhenApart(r1, d1, r2, d2) ==
    FLt(r1, r2) => (FLe(d1, d2) /\ (FLe(MinGap, FSub(r2, r1)) => FLt(d1, d2)))

LoadFailureIsFatal ==
    (pc \notin {"start", "load", "check"} /\ loaded_model.tag # "classifier") =>
        /\ pc = "stopped"
        /\ Shows(out, "error")
        /\ input_df = <<>>
        /\ call = "none"
        /\ n_predict = 0

\* C8: when predict_proba raises, the press shows an error that carries the
\* cause, and no risk score, progress bar or verdict.
FailureSurfaced ==
    call = "raised" =>
        /\ exc \in PredictCauses
        /\ \E i \in 1..Len(out) :
              /\ out[i].el = "error"
              /\ out[i].txt = "Prediction Error"
              /\ out[i].src = "e"
              /\ out[i].str = exc
        /\ ~Shows(out, "metric")
        /\ ~Shows(out, "progress")
        /\ ~HighShown /\ ~LowShown

FailureSurfacedWitness ==
    /\ call = "raised"
    /\ n_predict = 1
    /\ pc = "done"

\* C9: in one run pickle.load of xgb_model.pkl is attempted at most once,
\* and predict_proba is called at most once.
NoRetries == n_load <= 1 /\ n_predict <= 1

\* the schema the classifier was trained on: names in order, and the domain
\* of each field (in hundredths)
Field(name, lo, hi) == [name |-> name, lo |-> lo, hi |-> hi]
FeatureSchema ==
    << Field("Mg", 0, 500), Field("ALT", 0, 50000), Field("AG", 0, 5000),
       Field("CHE", 10000, 2000000), Field("HCT", 1000, 7000),
       Field("INR", 0, 1000), Field("hs_CRP", 0, 30000),
       Field("Age", 1800, 11000) >>

\* C10: the record handed to predict_proba holds exactly the eight fields
\* Mg, ALT, AG, CHE, HCT, INR, hs_CRP, Age in this order, each value inside
\* its domain.
RecordWellFormed ==
    n_predict > 0 =>
        /\ Len(handed) = Len(FeatureSchema)
        /\ \A i \in 1..Len(FeatureSchema) :
              /\ handed[i].name = FeatureSchema[i].name
              /\ handed[i].value >= FeatureSchema[i].lo
              /\ handed[i].value <= FeatureSchema[i].hi

\* the user entered a value above every maximum; Age, collected first, is
\* the last field of the record
RecordWellFormedWitness ==
    /\ n_predict = 1
    /\ NumberInputs[1].name = "Age"
    /\ handed[8] = [name |-> "Age", value |-> 11000]
    /\ handed[1] = [name |-> "Mg", value |-> 500]

=============================================================================
